---- MODULE Spec2Model ----
(***************************************************************************)
(* Sweep drivers of the HQEC examples:                                     *)
(*   scan_success_rates   (max_rate_multi_logical_HaPPY_TN.py)             *)
(*   generate_data_fig6a, generate_data_fig6b, plot_results                *)
(*                        (reproducing_figs.py)                            *)
(*                                                                         *)
(* Numbers.  Probabilities are exact rationals held as integers in units   *)
(* of 1/PScale, noise ratios in units of 1/RatioDen, rates in units of     *)
(* 1/RateOne.  Floating-point rounding is not modelled: every grid here is *)
(* the grid exact arithmetic gives.                                        *)
(***************************************************************************)
EXTENDS Integers, Sequences, FiniteSets, TLC

\* ------------------------------------------------------------- bounds
MaxRadii == 2
MaxRadius == 1

\* -------------------------------------------------------------- units
PScale == 1400
RatioDen == 6
RateOne == 1000

\* ------------------------------------------------- program constants
N_TRIALS_ERASURE == 200
N_TRIALS_PAULI == 200
LinspaceNum == 8

Radii == 0..MaxRadius

Hundredths(n) == n * (PScale \div 100)
Third == RatioDen \div 3

VARIABLES
  fn,            \* the entry point that runs
  args,          \* its arguments
  env,           \* the collaborators' behaviour: degenerate radii, rate curve, files
  pc,            \* position in the entry point
  ri,            \* position of the radius loop (1-based)
  pi,            \* position of the noise-grid loop (1-based)
  ry,            \* local ry / ry_ratio
  p_values,      \* local p_values
  tensor_list,   \* local tensor_list
  stabilizers,   \* local stabilizers
  logical_zs,    \* local logical_zs
  logical_xs,    \* local logical_xs
  success_rates, \* local success_rates (generate_data_fig6b)
  data_storage,  \* local data_storage, the value returned
  out,           \* lines printed
  trace,         \* calls made to the collaborators, in order
  error,         \* the exception that left the entry point, "none" if none
  ax1, ax2,      \* curves drawn on the two axes (plot_results)
  saved          \* whether the image artifact was written

vars == <<fn, args, env, pc, ri, pi, ry, p_values, tensor_list, stabilizers,
          logical_zs, logical_xs, success_rates, data_storage, out, trace,
          error, ax1, ax2, saved>>

\* ------------------------------------------------------ pure helpers
Max(a, b) == IF a >= b THEN a ELSE b
Min(a, b) == IF a <= b THEN a ELSE b

\* ceil(a / b) for b # 0
CeilDiv(a, b) == IF b > 0 THEN -((-a) \div b) ELSE -(a \div (-b))

\* np.arange(start, stop, step), step # 0: max(0, ceil((stop - start)/step))
\* values start + i*step
ArangeLen(start, stop, step) == Max(0, CeilDiv(stop - start, step))
Arange(start, stop, step) ==
  [i \in 1..ArangeLen(start, stop, step) |-> start + (i - 1) * step]

\* the stop value scan_success_rates hands to np.arange
GridStopExclusive(p_end_, p_step_) == p_end_
GridStop(p_end_, p_step_) == p_end_ + p_step_

\* np.linspace(start, stop, num), num >= 2, endpoint included
Linspace(start, stop, num) ==
  [i \in 1..num |-> start + ((i - 1) * (stop - start)) \div (num - 1)]

\* ry = 1 - rx - rz
RyOf(rx_, rz_) == RatioDen - rx_ - rz_

\* f"{p:.2f}": the nearest hundredth
Fmt2(p) == (p * 100 + (PScale \div 2)) \div PScale

\* ------------------------------------------------- values and records
NoCode == [R |-> -1, id |-> 0]
NoLog == [of |-> NoCode, n |-> -1]

Event(ev, it, code) ==
  [ev |-> ev, it |-> it, code |-> code, p |-> 0, rx |-> 0, ry |-> 0, rz |-> 0,
   N |-> 0, n_process |-> 0, stab |-> NoCode, lx |-> NoLog, lz |-> NoLog,
   res |-> "ok", rate |-> 0]

Line(kind, x, y) == [kind |-> kind, x |-> x, y |-> y]

\* a dict keeps insertion order; assigning an existing key keeps its place
DictHas(d, k) == \E i \in DOMAIN d : d[i].key = k
DictGet(d, k) == d[CHOOSE i \in DOMAIN d : d[i].key = k].val
DictSet(d, k, v) ==
  IF DictHas(d, k)
  THEN [i \in DOMAIN d |-> IF d[i].key = k THEN [key |-> k, val |-> v] ELSE d[i]]
  ELSE Append(d, [key |-> k, val |-> v])

\* ------------------------------------------------------ collaborators
\* setup_max_rate_happy(R) / setup_zero_rate_happy(R): a fresh code instance
SetupCode(R, it) == [R |-> R, id |-> it]

\* extract_logicals_from_result_dict: one list per type, indexed by logical qubit
LogicalCount(code) == IF code.R \in env.degenerate THEN 0 ELSE code.R + 1
ExtractLogicals(code) == [of |-> code, n |-> LogicalCount(code)]

\* the rate the tensor-network decoder reports: 1.0 at p = 0, within [0, 1]
TnRate(p) == Max(0, Min(RateOne, RateOne - env.slope * p))

\* what one decoder call can do: return a rate, or raise
TnOutcomes(code, p) ==
  IF code.R \in env.degenerate
  THEN {[res |-> "DegenerateCode", rate |-> 0]}
  ELSE {[res |-> "ok", rate |-> TnRate(p)], [res |-> "BackendFailure", rate |-> 0]}

\* calculate_recovery_rates_for_p_range: ordered (p, rate) pairs over the range
ErasureGrid(p_start_, p_end_, p_step_) ==
  [i \in 1..((p_end_ - p_start_) \div p_step_ + 1) |-> p_start_ + (i - 1) * p_step_]
ErasureResults(p_start_, p_end_, p_step_) ==
  LET g == ErasureGrid(p_start_, p_end_, p_step_)
  IN  [i \in DOMAIN g |-> <<g[i], TnRate(g[i])>>]
ErasureOutcomes(p_start_, p_end_, p_step_) ==
  {[res |-> "ok", val |-> ErasureResults(p_start_, p_end_, p_step_)],
   [res |-> "BackendFailure", val |-> <<>>]}

\* ------------------------------------------------------------ inputs
RadiiLists == UNION {[1..n -> Radii] : n \in 0..MaxRadii}
NoDupLists == {s \in RadiiLists : \A i, j \in DOMAIN s : i # j => s[i] # s[j]}

PStarts == {Hundredths(0), Hundredths(10)}
PEnds == {Hundredths(0), Hundredths(30)}
PSteps == {Hundredths(-5), Hundredths(0), Hundredths(5), Hundredths(20)}
Ratios == {Third, 2 * Third}
Runs == {[trials |-> 20, n_process |-> 1], [trials |-> 100, n_process |-> 8]}
Slopes == {0, 3}

NoArgs ==
  [radii |-> <<>>, p_start |-> 0, p_end |-> 0, p_step |-> 0, trials |-> 0,
   rx |-> 0, rz |-> 0, n_process |-> 0, erasure_data |-> <<>>, pauli_data |-> <<>>]

StubCurve == <<<<0, RateOne>>, <<Hundredths(50), 0>>>>
StubDict(keys) == [i \in DOMAIN keys |-> [key |-> keys[i], val |-> StubCurve]]

InitLocals ==
  /\ pc = "start"
  /\ ri = 1
  /\ pi = 1
  /\ ry = 0
  /\ p_values = <<>>
  /\ tensor_list = NoCode
  /\ stabilizers = NoCode
  /\ logical_zs = NoLog
  /\ logical_xs = NoLog
  /\ success_rates = <<>>
  /\ data_storage = <<>>
  /\ out = <<>>
  /\ trace = <<>>
  /\ error = "none"
  /\ ax1 = <<>>
  /\ ax2 = <<>>
  /\ saved = FALSE

InitScan ==
  /\ fn = "scan_success_rates"
  /\ \E r \in RadiiLists, ps \in PStarts, pe \in PEnds, st \in PSteps,
        run \in Runs, x \in Ratios, z \in Ratios :
       args = [NoArgs EXCEPT !.radii = r, !.p_start = ps, !.p_end = pe,
                             !.p_step = st, !.trials = run.trials,
                             !.n_process = run.n_process, !.rx = x, !.rz = z]
  /\ \E d \in SUBSET Radii, s \in Slopes :
       env = [degenerate |-> d, slope |-> s, files |-> {}]

InitFig6a ==
  /\ fn = "generate_data_fig6a"
  /\ \E r \in RadiiLists : args = [NoArgs EXCEPT !.radii = r]
  /\ \E d \in SUBSET Radii, s \in Slopes :
       env = [degenerate |-> d, slope |-> s, files |-> {}]

InitFig6b ==
  /\ fn = "generate_data_fig6b"
  /\ \E r \in RadiiLists : args = [NoArgs EXCEPT !.radii = r]
  /\ \E s \in Slopes : env = [degenerate |-> {}, slope |-> s, files |-> {}]

InitPlot ==
  /\ fn = "plot_results"
  /\ \E e \in NoDupLists, q \in NoDupLists :
       args = [NoArgs EXCEPT !.erasure_data = StubDict(e), !.pauli_data = StubDict(q)]
  /\ \E f \in SUBSET Radii : env = [degenerate |-> {}, slope |-> 0, files |-> f]

Init == InitLocals /\ (InitScan \/ InitFig6a \/ InitFig6b \/ InitPlot)

\* ------------------------------------------------ scan_success_rates
\* an exception inside scan_success_rates: no handler, it leaves the function
Swallow(e) ==
  /\ pc' = pc
  /\ error' = error
Raise(e) ==
  /\ pc' = "raised"
  /\ error' = e

\* lines 17-18
Scan_Start ==
  /\ fn = "scan_success_rates" /\ pc = "start"
  /\ ry' = RyOf(args.rx, args.rz)
  /\ IF args.p_step = 0
     THEN /\ Raise("ArangeError")
          /\ UNCHANGED p_values
     ELSE /\ p_values' = Arange(args.p_start, GridStop(args.p_end, args.p_step), args.p_step)
          /\ pc' = "for_radius"
          /\ UNCHANGED error
  /\ UNCHANGED <<fn, args, env, ri, pi, tensor_list, stabilizers, logical_zs,
                 logical_xs, success_rates, data_storage, out, trace, ax1, ax2, saved>>

\* lines 20-21
Scan_Construct ==
  /\ fn = "scan_success_rates" /\ pc = "for_radius" /\ ri <= Len(args.radii)
  /\ tensor_list' = SetupCode(args.radii[ri], ri)
  /\ trace' = Append(trace, Event("construct", ri, tensor_list'))
  /\ pc' = "constructed"
  /\ UNCHANGED <<fn, args, env, ri, pi, ry, p_values, stabilizers, logical_zs,
                 logical_xs, success_rates, data_storage, out, error, ax1, ax2, saved>>

\* line 20, list exhausted: the function returns None
Scan_Return ==
  /\ fn = "scan_success_rates" /\ pc = "for_radius" /\ ri > Len(args.radii)
  /\ pc' = "returned"
  /\ UNCHANGED <<fn, args, env, ri, pi, ry, p_values, tensor_list, stabilizers,
                 logical_zs, logical_xs, success_rates, data_storage, out, trace,
                 error, ax1, ax2, saved>>

\* lines 22-26
Scan_Extract ==
  /\ fn = "scan_success_rates" /\ pc = "constructed"
  /\ stabilizers' = tensor_list
  /\ logical_zs' = ExtractLogicals(tensor_list)
  /\ logical_xs' = ExtractLogicals(tensor_list)
  /\ trace' = trace \o <<Event("push", ri, tensor_list),
                         Event("extract_stabilizers", ri, tensor_list),
                         Event("extract_logicals", ri, tensor_list)>>
  /\ out' = Append(out, Line("header", args.radii[ri], logical_xs'.n))
  /\ pi' = 1
  /\ pc' = "scanning"
  /\ UNCHANGED <<fn, args, env, ri, ry, p_values, tensor_list, success_rates,
                 data_storage, error, ax1, ax2, saved>>

\* lines 27-40, one noise point
Scan_Point ==
  /\ fn = "scan_success_rates" /\ pc = "scanning" /\ pi <= Len(p_values)
  /\ \E o \in TnOutcomes(tensor_list, p_values[pi]) :
       /\ trace' = Append(trace,
            [Event("decode", ri, tensor_list) EXCEPT
               !.p = p_values[pi], !.rx = args.rx, !.ry = ry, !.rz = args.rz,
               !.N = args.trials, !.n_process = args.n_process,
               !.stab = stabilizers, !.lx = logical_xs, !.lz = logical_zs,
               !.res = o.res, !.rate = o.rate])
       /\ IF o.res = "ok"
          THEN /\ out' = Append(out, Line("rate", Fmt2(p_values[pi]), o.rate))
               /\ pi' = pi + 1
               /\ UNCHANGED <<pc, error>>
          ELSE /\ Raise(o.res)
               /\ UNCHANGED <<out, pi>>
  /\ UNCHANGED <<fn, args, env, ri, ry, p_values, tensor_list, stabilizers,
                 logical_zs, logical_xs, success_rates, data_storage, ax1, ax2, saved>>

\* line 27, grid exhausted: on to the next radius
Scan_EndRadius ==
  /\ fn = "scan_success_rates" /\ pc = "scanning" /\ pi > Len(p_values)
  /\ ri' = ri + 1
  /\ pc' = "for_radius"
  /\ UNCHANGED <<fn, args, env, pi, ry, p_values, tensor_list, stabilizers,
                 logical_zs, logical_xs, success_rates, data_storage, out, trace,
                 error, ax1, ax2, saved>>

\* ----------------------------------------------- generate_data_fig6a
\* an exception inside reproducing_figs.py: no handler either
RaiseFig(e) ==
  /\ pc' = "raised"
  /\ error' = e

\* lines 28-29
Fig6a_Start ==
  /\ fn = "generate_data_fig6a" /\ pc = "start"
  /\ out' = Append(out, Line("banner6a", 0, 0))
  /\ data_storage' = <<>>
  /\ pc' = "for_radius"
  /\ UNCHANGED <<fn, args, env, ri, pi, ry, p_values, tensor_list, stabilizers,
                 logical_zs, logical_xs, success_rates, trace, error, ax1, ax2, saved>>

\* lines 31-35
Fig6a_Construct ==
  /\ fn = "generate_data_fig6a" /\ pc = "for_radius" /\ ri <= Len(args.radii)
  /\ out' = Append(out, Line("simulating", args.radii[ri], 0))
  /\ tensor_list' = SetupCode(args.radii[ri], ri)
  /\ trace' = Append(trace, Event("construct", ri, tensor_list'))
  /\ pc' = "constructed"
  /\ UNCHANGED <<fn, args, env, ri, pi, ry, p_values, stabilizers, logical_zs,
                 logical_xs, success_rates, data_storage, error, ax1, ax2, saved>>

\* line 57
Fig6a_Return ==
  /\ fn = "generate_data_fig6a" /\ pc = "for_radius" /\ ri > Len(args.radii)
  /\ pc' = "returned"
  /\ UNCHANGED <<fn, args, env, ri, pi, ry, p_values, tensor_list, stabilizers,
                 logical_zs, logical_xs, success_rates, data_storage, out, trace,
                 error, ax1, ax2, saved>>

\* lines 36-39
Fig6a_Extract ==
  /\ fn = "generate_data_fig6a" /\ pc = "constructed"
  /\ stabilizers' = tensor_list
  /\ logical_zs' = ExtractLogicals(tensor_list)
  /\ logical_xs' = ExtractLogicals(tensor_list)
  /\ trace' = trace \o <<Event("push", ri, tensor_list),
                         Event("extract_stabilizers", ri, tensor_list),
                         Event("extract_logicals", ri, tensor_list)>>
  /\ pc' = "scanning"
  /\ UNCHANGED <<fn, args, env, ri, pi, ry, p_values, tensor_list, success_rates,
                 data_storage, out, error, ax1, ax2, saved>>

\* lines 43-55: logical_zs[0], logical_xs[0], then the whole range in one call
Fig6a_Decode ==
  /\ fn = "generate_data_fig6a" /\ pc = "scanning"
  /\ IF logical_zs.n = 0 \/ logical_xs.n = 0
     THEN /\ RaiseFig("IndexError")
          /\ UNCHANGED <<trace, data_storage, ri>>
     ELSE \E o \in ErasureOutcomes(Hundredths(1), Hundredths(60), Hundredths(4)) :
            /\ trace' = Append(trace,
                 [Event("erasure", ri, tensor_list) EXCEPT
                    !.N = N_TRIALS_ERASURE, !.stab = stabilizers,
                    !.lx = logical_xs, !.lz = logical_zs, !.res = o.res])
            /\ IF o.res = "ok"
               THEN /\ data_storage' = DictSet(data_storage, args.radii[ri], o.val)
                    /\ ri' = ri + 1
                    /\ pc' = "for_radius"
                    /\ UNCHANGED error
               ELSE /\ RaiseFig(o.res)
                    /\ UNCHANGED <<data_storage, ri>>
  /\ UNCHANGED <<fn, args, env, pi, ry, p_values, tensor_list, stabilizers,
                 logical_zs, logical_xs, success_rates, out, ax1, ax2, saved>>

\* ----------------------------------------------- generate_data_fig6b
\* success_rates.append((p, rate))
AppendPairFront(s, p, rate) == <<<<p, rate>>>> \o s
AppendPair(s, p, rate) == Append(s, <<p, rate>>)

\* lines 64-73
Fig6b_Start ==
  /\ fn = "generate_data_fig6b" /\ pc = "start"
  /\ out' = Append(out, Line("banner6b", 0, 0))
  /\ data_storage' = <<>>
  /\ ry' = RyOf(Third, Third)
  /\ p_values' = Linspace(0, PScale \div 2, LinspaceNum)
  /\ pc' = "for_radius"
  /\ UNCHANGED <<fn, args, env, ri, pi, tensor_list, stabilizers, logical_zs,
                 logical_xs, success_rates, trace, error, ax1, ax2, saved>>

\* lines 75-79
Fig6b_Construct ==
  /\ fn = "generate_data_fig6b" /\ pc = "for_radius" /\ ri <= Len(args.radii)
  /\ out' = Append(out, Line("simulating", args.radii[ri], 0))
  /\ tensor_list' = SetupCode(args.radii[ri], ri)
  /\ trace' = Append(trace, Event("construct", ri, tensor_list'))
  /\ success_rates' = <<>>
  /\ pi' = 1
  /\ pc' = "scanning"
  /\ UNCHANGED <<fn, args, env, ri, ry, p_values, stabilizers, logical_zs,
                 logical_xs, data_storage, error, ax1, ax2, saved>>

\* line 95
Fig6b_Return ==
  /\ fn = "generate_data_fig6b" /\ pc = "for_radius" /\ ri > Len(args.radii)
  /\ pc' = "returned"
  /\ UNCHANGED <<fn, args, env, ri, pi, ry, p_values, tensor_list, stabilizers,
                 logical_zs, logical_xs, success_rates, data_storage, out, trace,
                 error, ax1, ax2, saved>>

\* lines 80-91, one noise point: the decoder gets the tensor list alone
Fig6b_Point ==
  /\ fn = "generate_data_fig6b" /\ pc = "scanning" /\ pi <= Len(p_values)
  /\ \E o \in TnOutcomes(tensor_list, p_values[pi]) :
       /\ out' = Append(out, Line("testing", Fmt2(p_values[pi]), 0))
       /\ trace' = Append(trace,
            [Event("decode", ri, tensor_list) EXCEPT
               !.p = p_values[pi], !.rx = Third, !.ry = ry, !.rz = Third,
               !.N = N_TRIALS_PAULI, !.n_process = 4,
               !.res = o.res, !.rate = o.rate])
       /\ IF o.res = "ok"
          THEN /\ success_rates' = AppendPair(success_rates, p_values[pi], o.rate)
               /\ pi' = pi + 1
               /\ UNCHANGED <<pc, error>>
          ELSE /\ RaiseFig(o.res)
               /\ UNCHANGED <<success_rates, pi>>
  /\ UNCHANGED <<fn, args, env, ri, ry, p_values, tensor_list, stabilizers,
                 logical_zs, logical_xs, data_storage, ax1, ax2, saved>>

\* line 93
Fig6b_Store ==
  /\ fn = "generate_data_fig6b" /\ pc = "scanning" /\ pi > Len(p_values)
  /\ data_storage' = DictSet(data_storage, args.radii[ri], success_rates)
  /\ ri' = ri + 1
  /\ pc' = "for_radius"
  /\ UNCHANGED <<fn, args, env, pi, ry, p_values, tensor_list, stabilizers,
                 logical_zs, logical_xs, success_rates, out, trace, error,
                 ax1, ax2, saved>>

\* ------------------------------------------------------ plot_results
Curve(label, R, xs) == [label |-> label, R |-> R, n |-> Len(xs)]

\* np.loadtxt(filename): the file's numbers, or FileNotFoundError
FilePresent(R) == R \in env.files
FileData(R) == <<0, RateOne>>

\* lines 101-105
Plot_Start ==
  /\ fn = "plot_results" /\ pc = "start"
  /\ ri' = 1
  /\ pc' = "plot_erasure"
  /\ UNCHANGED <<fn, args, env, pi, ry, p_values, tensor_list, stabilizers,
                 logical_zs, logical_xs, success_rates, data_storage, out, trace,
                 error, ax1, ax2, saved>>

\* lines 107-110, one radius
Plot_Erasure ==
  /\ fn = "plot_results" /\ pc = "plot_erasure" /\ ri <= Len(args.erasure_data)
  /\ ax1' = Append(ax1, Curve("R", args.erasure_data[ri].key, args.erasure_data[ri].val))
  /\ ri' = ri + 1
  /\ UNCHANGED <<fn, args, env, pc, pi, ry, p_values, tensor_list, stabilizers,
                 logical_zs, logical_xs, success_rates, data_storage, out, trace,
                 error, ax2, saved>>

\* lines 112-117
Plot_Ax1Done ==
  /\ fn = "plot_results" /\ pc = "plot_erasure" /\ ri > Len(args.erasure_data)
  /\ ri' = 1
  /\ pc' = "plot_pauli"
  /\ UNCHANGED <<fn, args, env, pi, ry, p_values, tensor_list, stabilizers,
                 logical_zs, logical_xs, success_rates, data_storage, out, trace,
                 error, ax1, ax2, saved>>

\* lines 120-129, one radius: the decoder's curve, then the reference file's
Plot_Pauli ==
  /\ fn = "plot_results" /\ pc = "plot_pauli" /\ ri <= Len(args.pauli_data)
  /\ LET R == args.pauli_data[ri].key
         own == Curve("R", R, args.pauli_data[ri].val)
     IN  /\ trace' = Append(trace, [Event("loadtxt", ri, NoCode) EXCEPT
                                      !.p = R,
                                      !.res = IF FilePresent(R) THEN "ok"
                                              ELSE "FileNotFoundError"])
         /\ IF FilePresent(R)
            THEN /\ ax2' = ax2 \o <<own, Curve("Tesseract", R, FileData(R))>>
                 /\ ri' = ri + 1
                 /\ UNCHANGED <<pc, error>>
            ELSE /\ ax2' = Append(ax2, own)
                 /\ RaiseFig("FileNotFoundError")
                 /\ UNCHANGED ri
  /\ UNCHANGED <<fn, args, env, pi, ry, p_values, tensor_list, stabilizers,
                 logical_zs, logical_xs, success_rates, data_storage, out, ax1, saved>>

\* lines 131-141
Plot_Save ==
  /\ fn = "plot_results" /\ pc = "plot_pauli" /\ ri > Len(args.pauli_data)
  /\ saved' = TRUE
  /\ out' = Append(out, Line("saved", 0, 0))
  /\ pc' = "returned"
  /\ UNCHANGED <<fn, args, env, ri, pi, ry, p_values, tensor_list, stabilizers,
                 logical_zs, logical_xs, success_rates, data_storage, trace,
                 error, ax1, ax2>>

Next ==
  \/ Scan_Start
  \/ Scan_Construct
  \/ Scan_Return
  \/ Scan_Extract
  \/ Scan_Point
  \/ Scan_EndRadius
  \/ Fig6a_Start
  \/ Fig6a_Construct
  \/ Fig6a_Return
  \/ Fig6a_Extract
  \/ Fig6a_Decode
  \/ Fig6b_Start
  \/ Fig6b_Construct
  \/ Fig6b_Return
  \/ Fig6b_Point
  \/ Fig6b_Store
  \/ Plot_Start
  \/ Plot_Erasure
  \/ Plot_Ax1Done
  \/ Plot_Pauli
  \/ Plot_Save

Spec == Init /\ [][Next]_vars

\* ------------------------------------------------- reading the state
IsTerminal == pc \in {"returned", "raised"}
IsDecode(e) == e.ev = "decode"
IsOkDecode(e) == e.ev = "decode" /\ e.res = "ok"
IsRateLine(l) == l.kind = "rate"
DecodeCalls == SelectSeq(trace, IsDecode)
RateLines == SelectSeq(out, IsRateLine)
\* positions in trace of the events of kind ev made for radius iteration it
EventsOf(ev, it) == {j \in DOMAIN trace : trace[j].ev = ev /\ trace[j].it = it}
\* the successful decoder calls of iteration it, in call order, as (p, rate)
OkPairs(it) ==
  LET IsMine(e) == IsOkDecode(e) /\ e.it = it
      mine == SelectSeq(trace, IsMine)
  IN  [j \in DOMAIN mine |-> <<mine[j].p, mine[j].rate>>]
ValidRange == args.p_start <= args.p_end /\ args.p_step > 0

\* --------------------------------------------------------------- C1
\* C1: for p_start <= p_end and p_step > 0 the noise grid of
\* scan_success_rates is non-decreasing, starts at p_start and ends at p_end,
\* also when p_step does not divide p_end - p_start.
C1_GridEndsAtPEnd ==
  (fn = "scan_success_rates" /\ pc # "start" /\ ValidRange) =>
    /\ Len(p_values) >= 1
    /\ \A i \in 1..(Len(p_values) - 1) : p_values[i] <= p_values[i + 1]
    /\ p_values[1] = args.p_start
    /\ p_values[Len(p_values)] = args.p_end

\* --------------------------------------------------------------- C2
\* C2: with p_end < p_start or p_step <= 0, scan_success_rates fails before
\* any code is constructed and before any decoder call; it never goes on to
\* an empty or partial sweep.
C2_InvalidRangeFailsFast ==
  (fn = "scan_success_rates" /\ pc # "start" /\ ~ValidRange) =>
    /\ pc = "raised"
    /\ trace = <<>>

\* --------------------------------------------------------------- C3
C3_Config ==
  /\ fn = "scan_success_rates"
  /\ args.radii = <<0>>
  /\ args.p_start = Hundredths(0)
  /\ args.p_end = Hundredths(30)
  /\ args.p_step = Hundredths(5)
  /\ args.trials = 100
  /\ args.rx = Third
  /\ args.rz = Third

\* C3: radii = [0], p from 0.00 to 0.30 in steps of 0.05, 100 trials,
\* rx = rz = 1/3: a sweep that returns made exactly 7 decoder calls and
\* printed exactly 7 rate lines, p = 0.00, 0.05, ..., 0.30 in that order,
\* every rate in [0, 1], the rate at p = 0.00 equal to 1.0; no run makes more
\* than 7 calls.
C3_EndToEnd ==
  C3_Config =>
    /\ Len(DecodeCalls) <= 7
    /\ pc = "returned" =>
         /\ Len(DecodeCalls) = 7
         /\ Len(RateLines) = 7
         /\ \A i \in 1..7 :
              /\ DecodeCalls[i].p = Hundredths(5 * (i - 1))
              /\ DecodeCalls[i].N = 100
              /\ RateLines[i].x = 5 * (i - 1)
              /\ RateLines[i].y >= 0
              /\ RateLines[i].y <= RateOne
              /\ RateLines[i].y = DecodeCalls[i].rate
         /\ RateLines[1].y = RateOne

C3_Witness == C3_Config /\ pc = "returned" /\ Len(RateLines) = 7

\* --------------------------------------------------------------- C4
\* C4: in every sweep, a decoder call for a radius comes after exactly one
\* push, one stabilizer extraction and one logical extraction made for that
\* radius, themselves after its construction; none is made again later.
C4_ExtractOncePerRadius ==
  \A i \in DOMAIN trace :
    trace[i].ev \in {"decode", "erasure"} =>
      LET it == trace[i].it
          before(ev) == {j \in EventsOf(ev, it) : j < i}
      IN  /\ Cardinality(EventsOf("push", it)) = 1
          /\ Cardinality(EventsOf("extract_stabilizers", it)) = 1
          /\ Cardinality(EventsOf("extract_logicals", it)) = 1
          /\ Cardinality(before("push")) = 1
          /\ Cardinality(before("extract_stabilizers")) = 1
          /\ Cardinality(before("extract_logicals")) = 1
          /\ \A c \in EventsOf("construct", it), q \in EventsOf("push", it) : c < q

\* --------------------------------------------------------------- C5
\* C5: when extraction yields no logical operators for a radius, the sweep
\* of either backend ends in a DegenerateCode error, and no decoder call
\* returns a rate for that radius.
C5_EmptyLogicalsDegenerate ==
  (fn \in {"generate_data_fig6a", "scan_success_rates"}
     /\ \E j \in DOMAIN trace :
          trace[j].ev = "extract_logicals" /\ LogicalCount(trace[j].code) = 0) =>
    /\ IsTerminal => error = "DegenerateCode"
    /\ \A j \in DOMAIN trace :
         (trace[j].ev \in {"decode", "erasure"} /\ LogicalCount(trace[j].code) = 0)
           => trace[j].res # "ok"

\* --------------------------------------------------------------- C6
\* C6: a decoder call that raises is the last call the sweep makes: the
\* sweep has left with that error, the call is not made again, no later point
\* or radius is processed, and the rates printed or recorded are those of the
\* calls that returned, none for the call that raised.
C6_DecoderRaiseAborts ==
  /\ \A i \in DOMAIN trace :
       (trace[i].ev = "decode" /\ trace[i].res # "ok") =>
         /\ i = Len(trace)
         /\ pc = "raised"
         /\ error = trace[i].res
  /\ fn = "scan_success_rates" =>
       /\ Len(RateLines) = Len(SelectSeq(trace, IsOkDecode))
       /\ \A j \in DOMAIN RateLines :
            RateLines[j].y = SelectSeq(trace, IsOkDecode)[j].rate
  /\ (fn = "generate_data_fig6b" /\ pc = "raised") =>
       /\ success_rates = OkPairs(ri)
       /\ Len(success_rates) = pi - 1
       /\ \A k \in DOMAIN data_storage :
            \E it \in 1..(ri - 1) :
              /\ args.radii[it] = data_storage[k].key
              /\ data_storage[k].val = OkPairs(it)

C6_Witness ==
  /\ pc = "raised"
  /\ error = "BackendFailure"
  /\ fn \in {"scan_success_rates", "generate_data_fig6b"}
  /\ ri = 2
  /\ pi >= 2
  /\ trace[Len(trace)].ev = "decode"

\* --------------------------------------------------------------- C7
\* C7: plot_results survives a missing reference file: it never leaves with
\* an error, and when it is over every radius has its own curve and the
\* image is saved.
C7_MissingReferenceSkipped ==
  fn = "plot_results" =>
    /\ pc # "raised"
    /\ pc = "returned" =>
         /\ saved
         /\ \A k \in DOMAIN args.pauli_data :
              \E c \in DOMAIN ax2 :
                ax2[c].label = "R" /\ ax2[c].R = args.pauli_data[k].key

\* --------------------------------------------------------------- C8
\* C8: on every decoder call of scan_success_rates the ratios (rx, ry, rz)
\* are each non-negative and sum to exactly 1.
C8_RatiosValid ==
  (fn = "scan_success_rates" /\ ValidRange) =>
    \A i \in DOMAIN trace :
      trace[i].ev = "decode" =>
        /\ trace[i].rx >= 0
        /\ trace[i].ry >= 0
        /\ trace[i].rz >= 0
        /\ trace[i].rx + trace[i].ry + trace[i].rz = RatioDen

\* --------------------------------------------------------------- C9
\* C9: when generate_data_fig6b returns, every input radius maps to one
\* (p, rate) pair per grid point, in grid order with strictly ascending p
\* from 0 to 0.5, the pairs being the decoder calls of one pass over that
\* radius: one call per pair, made with that p.
C9_Fig6bResult ==
  (fn = "generate_data_fig6b" /\ pc = "returned") =>
    \A k \in DOMAIN args.radii :
      /\ DictHas(data_storage, args.radii[k])
      /\ LET v == DictGet(data_storage, args.radii[k])
         IN  /\ Len(v) = LinspaceNum
             /\ \A j \in DOMAIN v : v[j][1] = p_values[j]
             /\ \A j \in 1..(Len(v) - 1) : v[j][1] < v[j + 1][1]
             /\ v[1][1] = 0
             /\ v[Len(v)][1] = PScale \div 2
             /\ \E it \in DOMAIN args.radii :
                  /\ args.radii[it] = args.radii[k]
                  /\ Cardinality(EventsOf("decode", it)) = Len(v)
                  /\ v = OkPairs(it)

C9_Witness ==
  /\ fn = "generate_data_fig6b"
  /\ pc = "returned"
  /\ Len(args.radii) = 2
  /\ Len(data_storage) = 2

\* -------------------------------------------------------------- C10
\* C10: radii are processed one after another in list order, and every
\* decoder call for a radius comes after that radius's construction and
\* extraction (Init, Constructed, Extracted, Scanning, Done) and receives the
\* code built for that radius, in scan_success_rates with the stabilizers
\* and logicals extracted from it.
C10_SequentialPhases ==
  /\ \A i, j \in DOMAIN trace : i < j => trace[i].it <= trace[j].it
  /\ \A i \in DOMAIN trace :
       trace[i].ev = "decode" =>
         LET it == trace[i].it
         IN  /\ trace[i].code = SetupCode(args.radii[it], it)
             /\ \E c \in EventsOf("construct", it) :
                  /\ c < i
                  /\ trace[c].code = trace[i].code
                  /\ \E x \in EventsOf("extract_logicals", it) : c < x /\ x < i
             /\ fn = "scan_success_rates" =>
                  /\ trace[i].stab = trace[i].code
                  /\ trace[i].lx.of = trace[i].code
                  /\ trace[i].lz.of = trace[i].code

====
